---- MODULE Spec2Model ----
(***************************************************************************)
(* Model of the v2ray-core router configuration (app/router/config.go):    *)
(* the CIDR-list ordering, Rule.GetTag / Rule.Apply, the construction of a *)
(* rule's Condition from a RoutingRule description, and the Balancer that  *)
(* BalancingRule.Build returns.                                            *)
(***************************************************************************)
EXTENDS Integers, Sequences, FiniteSets, TLC

VARIABLES
  \* a call of RoutingRule.BuildCondition
  pc,        \* position of the caller of BuildCondition: "start" | "built"
  rr,        \* the RoutingRule description handed to BuildCondition
  retCond,   \* Condition returned by BuildCondition: <<>> is nil, <<chain>> a chain
  retErr,    \* error returned by BuildCondition: NoErr is nil
  \* a CIDRList and the calls of its sort.Interface
  cpc,       \* "idle" | "less" (Less has just returned)
  list,      \* the CIDRList
  origList,  \* the list as it was handed over
  prevList,  \* the list before the latest sort
  sortCount, \* number of sorts done on the list
  lessI,     \* arguments and result of the latest call of Less
  lessJ,
  lessOut,
  \* the Router, the outbound registry and a call of PickRoute
  rpc,       \* "idle" | "scan" | "done"
  rules,     \* the Router's ordered Rules
  ohm,       \* tags of the live outbound handlers
  ctx,       \* the Context of the call
  idx,       \* the Rule the scan stands at
  consulted, \* the Rules whose Condition the call has applied, in order
  routeTag,  \* result of PickRoute
  routeErr,
  poCalled,  \* whether the call ran Balancer.PickOutbound, and what that returned
  poTag,
  poErr,
  \* a Balancer built from a BalancingRule, and its Latency strategy
  lpc,       \* "config" | "idle" | "picked"
  balancer,  \* the Balancer returned by Build: <<>> before the build
  buildErr,  \* the error returned by Build
  windows,   \* per outbound tag, the rolling window of probe samples
  lsCands,   \* candidates, and result, of the latest strategy PickOutbound
  lsTag,
  lsErr

buildVars == <<pc, rr, retCond, retErr>>

cidrVars == <<cpc, list, origList, prevList, sortCount, lessI, lessJ, lessOut>>

routerVars ==
  <<rpc, rules, ohm, ctx, idx, consulted, routeTag, routeErr, poCalled, poTag, poErr>>

balancerVars == <<lpc, balancer, buildErr, windows, lsCands, lsTag, lsErr>>

vars == <<buildVars, cidrVars, routerVars, balancerVars>>

\* A nil error.
NoErr == ""

\* Pointers are sequences of length at most one: <<>> is nil, <<v>> points to v.
Nil == <<>>

Ptr(v) == <<v>>

(***************************************************************************)
(* Rule descriptions (the decoded RoutingRule record).                     *)
(***************************************************************************)

\* Regular expressions the regex compiler rejects.
MalformedPatterns == {"("}

\* Attribute scripts the script parser rejects.
MalformedScripts == {"attrs["}

\* Names of IP-range lists no data source resolves.
UnresolvableLists == {"nowhere"}

DomainValues ==
  { <<>>,
    <<[Type |-> "Domain", Value |-> "example.com"]>>,
    <<[Type |-> "Regex", Value |-> "("]>> }

UserEmailValues == { <<>>, <<"love@v2ray.com">> }

InboundTagValues == { <<>>, <<"in-a">> }

PortListValues == { Nil, Ptr([Range |-> <<[From |-> 80, To |-> 90]>>]) }

PortRangeValues == { Nil, Ptr([From |-> 443, To |-> 443]) }

NetworksValues == { <<>>, <<"UDP">> }

NetworkListValues == { Nil, Ptr([Network |-> <<"TCP">>]) }

GeoipValues ==
  { <<>>,
    <<[CountryCode |-> "cn", Cidr |-> <<[Ip |-> <<10, 0, 0, 0>>, Prefix |-> 8]>>]>>,
    <<[CountryCode |-> "nowhere", Cidr |-> <<>>]>> }

CidrValues ==
  { <<>>,
    <<[Ip |-> <<192, 168, 0, 0>>, Prefix |-> 16]>>,
    <<[Ip |-> <<192, 168, 0>>, Prefix |-> 16]>> }

CustomGeoipValues == { <<>>, <<"private">>, <<"nowhere">> }

ProtocolValues == { <<>>, <<"http">> }

AttributesValues == { "", "attrs['a'] == 'b'", "attrs[" }

ApplicationValues == { <<>>, <<"browser">> }

RoutingRules ==
  [ Domain : DomainValues,
    UserEmail : UserEmailValues,
    InboundTag : InboundTagValues,
    PortList : PortListValues,
    PortRange : PortRangeValues,
    Networks : NetworksValues,
    NetworkList : NetworkListValues,
    Geoip : GeoipValues,
    Cidr : CidrValues,
    SourceGeoip : GeoipValues,
    SourceCidr : CidrValues,
    CustomGeoip : CustomGeoipValues,
    Protocol : ProtocolValues,
    Attributes : AttributesValues,
    Application : ApplicationValues ]

\* The rule description with no field populated.
EmptyRule ==
  [ Domain |-> <<>>, UserEmail |-> <<>>, InboundTag |-> <<>>, PortList |-> Nil,
    PortRange |-> Nil, Networks |-> <<>>, NetworkList |-> Nil, Geoip |-> <<>>,
    Cidr |-> <<>>, SourceGeoip |-> <<>>, SourceCidr |-> <<>>, CustomGeoip |-> <<>>,
    Protocol |-> <<>>, Attributes |-> "", Application |-> <<>> ]

(***************************************************************************)
(* Matcher constructors.  A matcher is [kind, arg, reverse]; a constructor *)
(* that can fail returns [m, err].                                         *)
(***************************************************************************)

NilMatcher == [kind |-> "nil", arg |-> <<>>, reverse |-> FALSE]

Matcher(kind, arg, reverse) == [kind |-> kind, arg |-> arg, reverse |-> reverse]

\* Regex patterns compile eagerly; a malformed one fails the construction.
NewDomainMatcher(domains) ==
  IF \E i \in 1..Len(domains) :
       domains[i].Type = "Regex" /\ domains[i].Value \in MalformedPatterns
  THEN [m |-> NilMatcher, err |-> "regexp: error parsing regexp"]
  ELSE [m |-> Matcher("domain", domains, FALSE), err |-> NoErr]

NewUserMatcher(users) == Matcher("user", users, FALSE)

NewInboundTagMatcher(tags) == Matcher("inbound", tags, FALSE)

NewPortMatcher(ports) == Matcher("port", ports, FALSE)

NewNetworkMatcher(network) == Matcher("network", network, FALSE)

\* A GeoIP list is usable when its name resolves and every entry is an IPv4
\* or an IPv6 range.
GeoIPUsable(g) ==
  /\ g.CountryCode \notin UnresolvableLists
  /\ \A i \in 1..Len(g.Cidr) : Len(g.Cidr[i].Ip) \in {4, 16}

NewMultiGeoIPMatcher(geoips, onSource) ==
  IF \A i \in 1..Len(geoips) : GeoIPUsable(geoips[i])
  THEN [m |-> Matcher("geoip", geoips, onSource), err |-> NoErr]
  ELSE [m |-> NilMatcher, err |-> "failed to build geoip matcher"]

\* The custom matcher is returned without an error value: the named lists are
\* looked up in the external data source when the matcher is applied.
NewCustomGeoIPMatcher(names, onSource) == Matcher("customgeoip", names, onSource)

NewProtocolMatcher(protocols) == Matcher("protocol", protocols, FALSE)

NewAttributeMatcher(code) ==
  IF code \in MalformedScripts
  THEN [m |-> NilMatcher, err |-> "attr rule"]
  ELSE [m |-> Matcher("attribute", code, FALSE), err |-> NoErr]

NewApplicationMatcher(apps) == Matcher("application", apps, FALSE)

(***************************************************************************)
(* The condition chain.                                                    *)
(***************************************************************************)

NewConditionChan == <<>>

Add(conds, m) == Append(conds, m)

ChanLen(conds) == Len(conds)

(***************************************************************************)
(* RoutingRule.BuildCondition, one operator per block of the function.     *)
(* The build state st is [conds, err]: the chain built so far and the      *)
(* error the function has returned with (NoErr while it is still running). *)
(***************************************************************************)

Running(st) == st.err = NoErr

Fail(st, e) == [conds |-> st.conds, err |-> e]

Added(st, m) == [conds |-> Add(st.conds, m), err |-> st.err]

StepDomain(st, r) ==
  IF ~Running(st) THEN st
  ELSE IF Len(r.Domain) > 0
  THEN LET res == NewDomainMatcher(r.Domain)
       IN  IF res.err # NoErr
           THEN Fail(st, "failed to build domain condition")
           ELSE Added(st, res.m)
  ELSE st

StepUser(st, r) ==
  IF ~Running(st) THEN st
  ELSE IF Len(r.UserEmail) > 0
  THEN Added(st, NewUserMatcher(r.UserEmail))
  ELSE st

StepInboundTag(st, r) ==
  IF ~Running(st) THEN st
  ELSE IF Len(r.InboundTag) > 0
  THEN Added(st, NewInboundTagMatcher(r.InboundTag))
  ELSE st

\* A plausible slip: the single range is tested first.
StepPortRangeFirst(st, r) ==
  IF ~Running(st) THEN st
  ELSE IF r.PortRange # Nil
  THEN Added(st, NewPortMatcher([Range |-> <<r.PortRange[1]>>]))
  ELSE IF r.PortList # Nil
  THEN Added(st, NewPortMatcher(r.PortList[1]))
  ELSE st

StepPort(st, r) ==
  IF ~Running(st) THEN st
  ELSE IF r.PortList # Nil
  THEN Added(st, NewPortMatcher(r.PortList[1]))
  ELSE IF r.PortRange # Nil
  THEN Added(st, NewPortMatcher([Range |-> <<r.PortRange[1]>>]))
  ELSE st

StepNetwork(st, r) ==
  IF ~Running(st) THEN st
  ELSE IF Len(r.Networks) > 0
  THEN Added(st, NewNetworkMatcher(r.Networks))
  ELSE IF r.NetworkList # Nil
  THEN Added(st, NewNetworkMatcher(r.NetworkList[1].Network))
  ELSE st

StepGeoip(st, r) ==
  IF ~Running(st) THEN st
  ELSE IF Len(r.Geoip) > 0
  THEN LET res == NewMultiGeoIPMatcher(r.Geoip, FALSE)
       IN  IF res.err # NoErr THEN Fail(st, res.err) ELSE Added(st, res.m)
  ELSE IF Len(r.Cidr) > 0
  THEN LET res == NewMultiGeoIPMatcher(<<[CountryCode |-> "", Cidr |-> r.Cidr]>>, FALSE)
       IN  IF res.err # NoErr THEN Fail(st, res.err) ELSE Added(st, res.m)
  ELSE st

StepSourceGeoip(st, r) ==
  IF ~Running(st) THEN st
  ELSE IF Len(r.SourceGeoip) > 0
  THEN LET res == NewMultiGeoIPMatcher(r.SourceGeoip, TRUE)
       IN  IF res.err # NoErr THEN Fail(st, res.err) ELSE Added(st, res.m)
  ELSE IF Len(r.SourceCidr) > 0
  THEN LET res == NewMultiGeoIPMatcher(<<[CountryCode |-> "", Cidr |-> r.SourceCidr]>>, TRUE)
       IN  IF res.err # NoErr THEN Fail(st, res.err) ELSE Added(st, res.m)
  ELSE st

\* A plausible slip: the custom matcher is built like the source matcher.
StepCustomGeoipOnSource(st, r) ==
  IF ~Running(st) THEN st
  ELSE IF Len(r.CustomGeoip) > 0
  THEN Added(st, NewCustomGeoIPMatcher(r.CustomGeoip, TRUE))
  ELSE st

StepCustomGeoip(st, r) ==
  IF ~Running(st) THEN st
  ELSE IF Len(r.CustomGeoip) > 0
  THEN Added(st, NewCustomGeoIPMatcher(r.CustomGeoip, FALSE))
  ELSE st

StepProtocol(st, r) ==
  IF ~Running(st) THEN st
  ELSE IF Len(r.Protocol) > 0
  THEN Added(st, NewProtocolMatcher(r.Protocol))
  ELSE st

\* A plausible slip: a script that does not parse is skipped.
StepAttributesSkipError(st, r) ==
  IF ~Running(st) THEN st
  ELSE IF r.Attributes # ""
  THEN LET res == NewAttributeMatcher(r.Attributes)
       IN  IF res.err # NoErr THEN st ELSE Added(st, res.m)
  ELSE st

StepAttributes(st, r) ==
  IF ~Running(st) THEN st
  ELSE IF r.Attributes # ""
  THEN LET res == NewAttributeMatcher(r.Attributes)
       IN  IF res.err # NoErr THEN Fail(st, res.err) ELSE Added(st, res.m)
  ELSE st

StepApplication(st, r) ==
  IF ~Running(st) THEN st
  ELSE IF Len(r.Application) > 0
  THEN Added(st, NewApplicationMatcher(r.Application))
  ELSE st

\* A plausible slip: the emptiness test is missing.
StepReturnNoCheck(st) ==
  IF ~Running(st) THEN [cond |-> Nil, err |-> st.err]
  ELSE [cond |-> Ptr(st.conds), err |-> NoErr]

\* The end of the function: an empty chain is an error, anything else is
\* returned.  A build that failed earlier has returned nil and its error.
StepReturn(st) ==
  IF ~Running(st) THEN [cond |-> Nil, err |-> st.err]
  ELSE IF ChanLen(st.conds) = 0
  THEN [cond |-> Nil, err |-> "this rule has no effective fields"]
  ELSE [cond |-> Ptr(st.conds), err |-> NoErr]

BuildStart == [conds |-> NewConditionChan, err |-> NoErr]

\* A plausible slip: the protocol block stands before the custom-GeoIP block.
BuildConditionReordered(r) ==
  StepReturn(
    StepApplication(StepAttributes(StepCustomGeoip(StepProtocol(
      StepSourceGeoip(StepGeoip(StepNetwork(StepPort(StepInboundTag(StepUser(
        StepDomain(BuildStart, r), r), r), r), r), r), r), r), r), r), r))

BuildCondition(r) ==
  StepReturn(
    StepApplication(StepAttributes(StepProtocol(StepCustomGeoip(
      StepSourceGeoip(StepGeoip(StepNetwork(StepPort(StepInboundTag(StepUser(
        StepDomain(BuildStart, r), r), r), r), r), r), r), r), r), r), r))

(***************************************************************************)
(* CIDRList: Len, Less and Swap (sort.Interface).  Indices are 1-based     *)
(* here and 0-based in the source.                                         *)
(***************************************************************************)

\* The entries the lists are drawn from: IPv4 addresses that differ in
\* the first or in the last byte, IPv6 addresses, two prefix lengths.
Prefixes == {8, 24}

IPv4(a, b) == <<a, 0, 0, b>>

IPv6(a) == <<a, 0, 0, 0, 0, 0, 0, 0, 0, 0, 0, 0, 0, 0, 0, 1>>

IPs == { IPv4(0, 255), IPv4(255, 0), IPv4(255, 255), IPv6(0), IPv6(255) }

CIDRs == [Ip : IPs, Prefix : Prefixes]

ListLen(l) == Len(l)

RECURSIVE LessLoop(_, _, _)
\* The loop over the address bytes and the final comparison of the prefixes.
LessLoop(ci, cj, k) ==
  IF k > Len(ci.Ip) THEN ci.Prefix < cj.Prefix
  ELSE IF ci.Ip[k] < cj.Ip[k] THEN TRUE
  ELSE IF ci.Ip[k] > cj.Ip[k] THEN FALSE
  ELSE LessLoop(ci, cj, k + 1)

\* A plausible slip: the two length tests are exchanged.
LessLongerFirst(l, i, j) ==
  LET ci == l[i]
      cj == l[j]
  IN  IF Len(ci.Ip) > Len(cj.Ip) THEN TRUE
      ELSE IF Len(ci.Ip) < Len(cj.Ip) THEN FALSE
      ELSE LessLoop(ci, cj, 1)

\* A plausible slip: entries with equal bytes are never ordered.
LessIgnoresPrefix(l, i, j) ==
  LET ci == l[i]
      cj == l[j]
  IN  IF Len(ci.Ip) < Len(cj.Ip) THEN TRUE
      ELSE IF Len(ci.Ip) > Len(cj.Ip) THEN FALSE
      ELSE ci.Ip # cj.Ip /\ LessLoop(ci, cj, 1)

Less(l, i, j) ==
  LET ci == l[i]
      cj == l[j]
  IN  IF Len(ci.Ip) < Len(cj.Ip) THEN TRUE
      ELSE IF Len(ci.Ip) > Len(cj.Ip) THEN FALSE
      ELSE LessLoop(ci, cj, 1)

Swap(l, i, j) == [l EXCEPT ![i] = l[j], ![j] = l[i]]

RECURSIVE SinkDown(_, _)
\* Inner loop of the insertion sort: entry j moves down while it is Less than
\* the entry before it.
SinkDown(l, j) ==
  IF j > 1 /\ Less(l, j, j - 1) THEN SinkDown(Swap(l, j, j - 1), j - 1) ELSE l

RECURSIVE InsertFrom(_, _)
InsertFrom(l, i) ==
  IF i > ListLen(l) THEN l ELSE InsertFrom(SinkDown(l, i), i + 1)

\* sort.Sort on a short list: an insertion sort driven by Len, Less and Swap.
Sort(l) == InsertFrom(l, 2)

(***************************************************************************)
(* Outbound tags.  A tag is a sequence of characters, so that a selector   *)
(* can be tested as a prefix of it.                                        *)
(***************************************************************************)

NoTag == <<>>

TagDirect == <<"d">>

TagProxy == <<"p">>

TagOutA == <<"o", "a">>

TagOutB == <<"o", "b">>

SelectorOut == <<"o">>

\* The outbound handlers that can be registered.
OutTags == {TagOutA, TagOutB}

HasPrefix(t, prefix) ==
  Len(prefix) <= Len(t) /\ SubSeq(t, 1, Len(prefix)) = prefix

(***************************************************************************)
(* Balancing strategies.  A pick returns the set of its possible outcomes  *)
(* [tag, err].                                                             *)
(***************************************************************************)

PickFailed(e) == [tag |-> NoTag, err |-> e]

Picked(t) == [tag |-> t, err |-> NoErr]

\* Random: any candidate; fails only on an empty set.
RandomPickOutbound(cands) ==
  IF cands = {} THEN {PickFailed("no candidates")} ELSE {Picked(t) : t \in cands}

\* The successful samples of a window.
IsSuccess(sample) == sample.ok

Successes(w, t) == SelectSeq(w[t], IsSuccess)

RECURSIVE SumRtt(_)
SumRtt(samples) ==
  IF samples = <<>> THEN 0 ELSE Head(samples).rtt + SumRtt(Tail(samples))

\* The score of a candidate with at least one successful sample: the mean
\* round-trip time of its successful samples.
Score(w, t) == SumRtt(Successes(w, t)) \div Len(Successes(w, t))

\* A plausible slip: with no successful sample anywhere the pick fails.
LatencyPickOutboundNoFallback(strategy, cands, w) ==
  LET scored == { t \in cands : Len(Successes(w, t)) > 0 }
  IN  IF scored = {} THEN {PickFailed("no candidates")}
      ELSE LET best == CHOOSE b \in scored : \A t \in scored : Score(w, b) <= Score(w, t)
           IN  { Picked(t) : t \in { c \in scored : Score(w, c) <= Score(w, best) + strategy.tolerance } }

\* Latency: the candidates with a successful sample are ranked by score and one
\* within Tolerance of the best is chosen; with no successful sample anywhere
\* the pick is a random one over all candidates; it fails on an empty set only.
LatencyPickOutbound(strategy, cands, w) ==
  LET scored == { t \in cands : Len(Successes(w, t)) > 0 }
  IN  IF cands = {} THEN {PickFailed("no candidates")}
      ELSE IF scored = {} THEN RandomPickOutbound(cands)
      ELSE LET best == CHOOSE b \in scored : \A t \in scored : Score(w, b) <= Score(w, t)
           IN  { Picked(t) : t \in { c \in scored : Score(w, c) <= Score(w, best) + strategy.tolerance } }

StrategyPickOutbound(strategy, cands, w) ==
  IF strategy.kind = "Latency"
  THEN LatencyPickOutbound(strategy, cands, w)
  ELSE RandomPickOutbound(cands)

\* The strategy object NewLatencyStrategy returns for a balancing rule.
LatencyStrategy(br) ==
  [kind |-> "Latency", totalMeasures |-> br.TotalMeasures, tolerance |-> br.Tolerance]

RandomStrategy == [kind |-> "Random", totalMeasures |-> 0, tolerance |-> 0]

\* NewLatencyStrategy may return no strategy.
NewLatencyStrategyResults(br) == { Nil, Ptr(LatencyStrategy(br)) }

(***************************************************************************)
(* BalancingRule.Build and the Balancer.                                   *)
(***************************************************************************)

\* ls is what the call of NewLatencyStrategy returns when it is made.
Build(br, ohmHandle, ls) ==
  LET none == Nil
      afterRandom ==
        IF br.BalancingStrategy = "Random" THEN Ptr(RandomStrategy) ELSE none
      afterLatency ==
        IF br.BalancingStrategy = "Latency"
        THEN (IF ls # Nil THEN ls ELSE afterRandom)
        ELSE afterRandom
  IN  [ bal |-> Ptr([ selectors |-> br.OutboundSelector,
                      strategy |-> afterLatency,
                      ohm |-> ohmHandle ]),
        err |-> NoErr ]

\* The live outbound tags one of the selectors is a prefix of.
Candidates(b, live) ==
  { t \in live : \E i \in 1..Len(b.selectors) : HasPrefix(t, b.selectors[i]) }

\* Balancer.PickOutbound: fails on an empty candidate set, else delegates to
\* the strategy.  A Balancer without a strategy cannot delegate: the call
\* panics.
BalancerPickOutbound(b, live, w) ==
  LET cands == Candidates(b, live)
  IN  IF cands = {} THEN {PickFailed("no available outbounds selected")}
      ELSE IF b.strategy = Nil THEN {PickFailed("panic: nil strategy")}
      ELSE StrategyPickOutbound(b.strategy[1], cands, w)

(***************************************************************************)
(* Rule and Router.                                                        *)
(***************************************************************************)

Elements(seq) == { seq[i] : i \in 1..Len(seq) }

\* The matchers the rules of the router are made of.
MatcherApply(m, c) ==
  CASE m.kind = "network" -> c.Network \in Elements(m.arg)
    [] m.kind = "inbound" -> c.InboundTag \in Elements(m.arg)
    [] OTHER -> FALSE

\* An AND-chain holds when every member holds.
ConditionApply(chain, c) == \A i \in 1..Len(chain) : MatcherApply(chain[i], c)

\* A plausible slip: the fixed Tag is returned when the Balancer fails.
GetTagFallsBack(r, po) ==
  IF r.Balancer # Nil
  THEN (IF po.err # NoErr
        THEN [tag |-> r.Tag, err |-> NoErr, picked |-> TRUE]
        ELSE [tag |-> po.tag, err |-> po.err, picked |-> TRUE])
  ELSE [tag |-> r.Tag, err |-> NoErr, picked |-> FALSE]

\* Rule.GetTag.  po is what r.Balancer.PickOutbound() returns when it is
\* called; picked tells whether it was called.
GetTag(r, po) ==
  IF r.Balancer # Nil
  THEN [tag |-> po.tag, err |-> po.err, picked |-> TRUE]
  ELSE [tag |-> r.Tag, err |-> NoErr, picked |-> FALSE]

\* A plausible slip: the rule applies whenever it has a Condition.
ApplyAnyContext(r, c) == r.Condition # <<>>

\* Rule.Apply.
Apply(r, c) == ConditionApply(r.Condition, c)

(***************************************************************************)
(* The parts of the state a specification leaves alone.                    *)
(***************************************************************************)

EmptyWindows == [t \in OutTags |-> <<>>]

NoContext == [Network |-> "", InboundTag |-> ""]

BuildIdle ==
  /\ pc = "start"
  /\ rr = EmptyRule
  /\ retCond = Nil
  /\ retErr = NoErr

CIDRIdle ==
  /\ cpc = "idle"
  /\ list = <<>>
  /\ origList = <<>>
  /\ prevList = <<>>
  /\ sortCount = 0
  /\ lessI = 0
  /\ lessJ = 0
  /\ lessOut = FALSE

NoRoute ==
  /\ idx = 0
  /\ consulted = <<>>
  /\ routeTag = NoTag
  /\ routeErr = NoErr
  /\ poCalled = FALSE
  /\ poTag = NoTag
  /\ poErr = NoErr

RouterIdle ==
  /\ rpc = "idle"
  /\ rules = <<>>
  /\ ohm = {}
  /\ ctx = NoContext
  /\ NoRoute

NoPick ==
  /\ lsCands = {}
  /\ lsTag = NoTag
  /\ lsErr = NoErr

BalancerIdle ==
  /\ lpc = "config"
  /\ balancer = Nil
  /\ buildErr = NoErr
  /\ windows = EmptyWindows
  /\ NoPick

(***************************************************************************)
(* Specification of a rule build: any rule description, then one call.     *)
(***************************************************************************)

Init ==
  /\ pc = "start"
  /\ rr \in RoutingRules
  /\ retCond = Nil
  /\ retErr = NoErr
  /\ CIDRIdle
  /\ RouterIdle
  /\ BalancerIdle

CallBuildCondition ==
  /\ pc = "start"
  /\ LET out == BuildCondition(rr)
     IN  /\ retCond' = out.cond
         /\ retErr' = out.err
  /\ pc' = "built"
  /\ UNCHANGED <<rr, cidrVars, routerVars, balancerVars>>

Next == CallBuildCondition

Spec == Init /\ [][Next]_vars

(***************************************************************************)
(* Specification of a CIDR list: any short list, then calls of Less and    *)
(* sorts of the list.                                                      *)
(***************************************************************************)

MaxListLen == 3

MaxSorts == 2

CIDRLists == UNION { [1..n -> CIDRs] : n \in 0..MaxListLen }

InitCIDR ==
  /\ BuildIdle
  /\ RouterIdle
  /\ BalancerIdle
  /\ cpc = "idle"
  /\ list \in CIDRLists
  /\ origList = list
  /\ prevList = list
  /\ sortCount = 0
  /\ lessI = 0
  /\ lessJ = 0
  /\ lessOut = FALSE

CallLess ==
  /\ cpc = "idle"
  /\ \E i \in 1..ListLen(list), j \in 1..ListLen(list) :
       /\ lessI' = i
       /\ lessJ' = j
       /\ lessOut' = Less(list, i, j)
  /\ cpc' = "less"
  /\ UNCHANGED <<list, origList, prevList, sortCount>>
  /\ UNCHANGED <<buildVars, routerVars, balancerVars>>

CallSort ==
  /\ cpc = "idle"
  /\ sortCount < MaxSorts
  /\ prevList' = list
  /\ list' = Sort(list)
  /\ sortCount' = sortCount + 1
  /\ UNCHANGED <<cpc, origList, lessI, lessJ, lessOut>>
  /\ UNCHANGED <<buildVars, routerVars, balancerVars>>

NextCIDR == CallLess \/ CallSort

SpecCIDR == InitCIDR /\ [][NextCIDR]_vars

(***************************************************************************)
(* Balancing-rule descriptions and the Balancers built from them.          *)
(***************************************************************************)

MaxMeasures == 2

MaxRtt == 2

OhmHandle == "ohm"

BalancingRules ==
  [ OutboundSelector : {<<SelectorOut>>},
    BalancingStrategy : {"Random", "Latency", "Other"},
    TotalMeasures : {MaxMeasures},
    Tolerance : {0, 1} ]

(***************************************************************************)
(* Specification of the Router: any short rule table over any registry,    *)
(* then PickRoute calls, each a scan of the rules in order.                *)
(***************************************************************************)

MaxRules == 2

\* The rule descriptions of the rules of the router.
UDPOnly == [EmptyRule EXCEPT !.Networks = <<"UDP">>]

AnyNetwork == [EmptyRule EXCEPT !.Networks = <<"TCP", "UDP">>]

TCPFromInA == [EmptyRule EXCEPT !.Networks = <<"TCP">>, !.InboundTag = <<"in-a">>]

RouterConditions == { BuildCondition(d).cond[1] : d \in {UDPOnly, AnyNetwork, TCPFromInA} }

BuiltFrom(br) == { Build(br, OhmHandle, ls).bal[1] : ls \in NewLatencyStrategyResults(br) }

RouterBalancers == UNION { BuiltFrom(br) : br \in { b \in BalancingRules : b.Tolerance = 0 } }

Rules ==
  [ Tag : {TagDirect, TagProxy},
    Balancer : {Nil} \cup { Ptr(b) : b \in RouterBalancers },
    Condition : RouterConditions ]

RuleTables == UNION { [1..n -> Rules] : n \in 0..MaxRules }

Contexts == [Network : {"TCP", "UDP"}, InboundTag : {"in-a", "in-b"}]

Registries == { {}, {TagOutA}, {TagOutA, TagOutB} }

ErrNoMatch == "no matching rule"

InitRouter ==
  /\ BuildIdle
  /\ CIDRIdle
  /\ BalancerIdle
  /\ rpc = "idle"
  /\ rules \in RuleTables
  /\ ohm \in Registries
  /\ ctx = NoContext
  /\ NoRoute

\* PickRoute is called with a Context: the scan starts at the first Rule.
PickRoute ==
  /\ rpc = "idle"
  /\ ctx' \in Contexts
  /\ idx' = 1
  /\ rpc' = "scan"
  /\ UNCHANGED <<rules, ohm, consulted, routeTag, routeErr, poCalled, poTag, poErr>>
  /\ UNCHANGED <<buildVars, cidrVars, balancerVars>>

\* What the Balancer of a Rule may return; a Rule without one is never asked.
PickOutcomes(r) ==
  IF r.Balancer = Nil
  THEN {PickFailed("not called")}
  ELSE BalancerPickOutbound(r.Balancer[1], ohm, windows)

\* One step of the scan: the Rule is applied; if it holds its target is the
\* result of the call, else the scan moves on.
ScanRule ==
  /\ rpc = "scan"
  /\ idx <= Len(rules)
  /\ consulted' = Append(consulted, idx)
  /\ IF Apply(rules[idx], ctx)
     THEN \E po \in PickOutcomes(rules[idx]) :
            LET out == GetTag(rules[idx], po)
            IN  /\ routeTag' = out.tag
                /\ routeErr' = out.err
                /\ poCalled' = out.picked
                /\ poTag' = IF out.picked THEN po.tag ELSE NoTag
                /\ poErr' = IF out.picked THEN po.err ELSE NoErr
                /\ rpc' = "done"
                /\ idx' = idx
     ELSE /\ idx' = idx + 1
          /\ UNCHANGED <<rpc, routeTag, routeErr, poCalled, poTag, poErr>>
  /\ UNCHANGED <<rules, ohm, ctx>>
  /\ UNCHANGED <<buildVars, cidrVars, balancerVars>>

\* The scan has passed the last Rule: no rule matched.
ScanEnd ==
  /\ rpc = "scan"
  /\ idx > Len(rules)
  /\ routeTag' = NoTag
  /\ routeErr' = ErrNoMatch
  /\ rpc' = "done"
  /\ UNCHANGED <<rules, ohm, ctx, idx, consulted, poCalled, poTag, poErr>>
  /\ UNCHANGED <<buildVars, cidrVars, balancerVars>>

NextRouter == PickRoute \/ ScanRule \/ ScanEnd

SpecRouter == InitRouter /\ [][NextRouter]_vars

(***************************************************************************)
(* Specification of a Balancer: Build, then the prober of a Latency        *)
(* strategy records samples and the strategy is asked to pick.             *)
(***************************************************************************)

Samples ==
  {[ok |-> FALSE, rtt |-> 0]} \cup { [ok |-> TRUE, rtt |-> r] : r \in 1..MaxRtt }

InitBalancer ==
  /\ BuildIdle
  /\ CIDRIdle
  /\ RouterIdle
  /\ BalancerIdle

CallBuild ==
  /\ lpc = "config"
  /\ \E br \in BalancingRules :
       \E ls \in NewLatencyStrategyResults(br) :
         LET out == Build(br, OhmHandle, ls)
         IN  /\ balancer' = out.bal
             /\ buildErr' = out.err
  /\ lpc' = "idle"
  /\ UNCHANGED <<windows, lsCands, lsTag, lsErr>>
  /\ UNCHANGED <<buildVars, cidrVars, routerVars>>

HasLatencyStrategy ==
  /\ balancer # Nil
  /\ balancer[1].strategy # Nil
  /\ balancer[1].strategy[1].kind = "Latency"

\* A window keeps the latest totalMeasures samples.
Record(window, sample, size) ==
  IF Len(window) >= size THEN Append(Tail(window), sample) ELSE Append(window, sample)

\* The prober has probed outbound t.
Probe ==
  /\ lpc = "idle"
  /\ HasLatencyStrategy
  /\ \E t \in OutTags, sample \in Samples :
       windows' =
         [windows EXCEPT ![t] = Record(@, sample, balancer[1].strategy[1].totalMeasures)]
  /\ UNCHANGED <<lpc, balancer, buildErr, lsCands, lsTag, lsErr>>
  /\ UNCHANGED <<buildVars, cidrVars, routerVars>>

\* The Latency strategy is asked to pick among a candidate set.
LatencyPick ==
  /\ lpc = "idle"
  /\ HasLatencyStrategy
  /\ \E cands \in SUBSET OutTags :
       \E out \in StrategyPickOutbound(balancer[1].strategy[1], cands, windows) :
         /\ lsCands' = cands
         /\ lsTag' = out.tag
         /\ lsErr' = out.err
  /\ lpc' = "picked"
  /\ UNCHANGED <<balancer, buildErr, windows>>
  /\ UNCHANGED <<buildVars, cidrVars, routerVars>>

\* The pick has returned to its caller.
PickReturn ==
  /\ lpc = "picked"
  /\ lpc' = "idle"
  /\ lsCands' = {}
  /\ lsTag' = NoTag
  /\ lsErr' = NoErr
  /\ UNCHANGED <<balancer, buildErr, windows>>
  /\ UNCHANGED <<buildVars, cidrVars, routerVars>>

NextBalancer == CallBuild \/ Probe \/ LatencyPick \/ PickReturn

SpecBalancer == InitBalancer /\ [][NextBalancer]_vars

(***************************************************************************)
(* Properties of RoutingRule.BuildCondition.                               *)
(***************************************************************************)

\* The field groups of a rule description, in the order of the chain.
GroupOrder ==
  << "domain", "user", "inbound", "port", "network", "destination", "source",
     "customgeoip", "protocol", "attribute", "application" >>

GroupPopulated(r, g) ==
  CASE g = "domain"      -> r.Domain # <<>>
    [] g = "user"        -> r.UserEmail # <<>>
    [] g = "inbound"     -> r.InboundTag # <<>>
    [] g = "port"        -> r.PortList # Nil \/ r.PortRange # Nil
    [] g = "network"     -> r.Networks # <<>> \/ r.NetworkList # Nil
    [] g = "destination" -> r.Geoip # <<>> \/ r.Cidr # <<>>
    [] g = "source"      -> r.SourceGeoip # <<>> \/ r.SourceCidr # <<>>
    [] g = "customgeoip" -> r.CustomGeoip # <<>>
    [] g = "protocol"    -> r.Protocol # <<>>
    [] g = "attribute"   -> r.Attributes # ""
    [] g = "application" -> r.Application # <<>>

NothingPopulated(r) == \A i \in 1..Len(GroupOrder) : ~GroupPopulated(r, GroupOrder[i])

\* The group a member of a chain stands for.
MatcherGroup(m) ==
  IF m.kind = "geoip" THEN (IF m.reverse THEN "source" ELSE "destination") ELSE m.kind

Succeeded == pc = "built" /\ retErr = NoErr

Failed == pc = "built" /\ retErr # NoErr

\* The chain a successful build returned.
Chain == retCond[1]

GroupsOf(chain) == [i \in 1..Len(chain) |-> MatcherGroup(chain[i])]

IsPopulatedGroup(g) == GroupPopulated(rr, g)

\* C1: a rule description with no populated matcher field fails construction
\* (an error and no Condition), and every Condition returned is a chain with
\* at least one member.
C1_EmptyRuleFails ==
  pc = "built" =>
    /\ NothingPopulated(rr) => (retErr # NoErr /\ retCond = Nil)
    /\ retErr = NoErr => (retCond # Nil /\ Len(Chain) >= 1)
    /\ retErr # NoErr => retCond = Nil

C1_Witness == pc = "built" /\ NothingPopulated(rr) /\ retErr # NoErr /\ retCond = Nil

\* C2: a successful build returns one matcher per populated group, none for an
\* unpopulated group, in the fixed order of GroupOrder.
C2_OneMatcherPerGroupInOrder ==
  Succeeded => GroupsOf(Chain) = SelectSeq(GroupOrder, IsPopulatedGroup)

C2_Witness ==
  /\ Succeeded
  /\ Len(Chain) = Len(GroupOrder)
  /\ rr.NetworkList # Nil /\ rr.Networks = <<>>

\* The members of the chain built for group g.
MembersOf(g) == { i \in 1..Len(Chain) : MatcherGroup(Chain[i]) = g }

OnlyMember(g, arg) ==
  /\ Cardinality(MembersOf(g)) = 1
  /\ \A i \in MembersOf(g) : Chain[i].arg = arg

\* C3: when both alternatives of a group are populated, the group's single
\* matcher is built from the preferred one: the port list, the network list,
\* the named GeoIP lists, the named source GeoIP lists.
C3_PreferredAlternative ==
  Succeeded =>
    /\ (rr.PortList # Nil /\ rr.PortRange # Nil) => OnlyMember("port", rr.PortList[1])
    /\ (rr.Networks # <<>> /\ rr.NetworkList # Nil) => OnlyMember("network", rr.Networks)
    /\ (rr.Geoip # <<>> /\ rr.Cidr # <<>>) => OnlyMember("destination", rr.Geoip)
    /\ (rr.SourceGeoip # <<>> /\ rr.SourceCidr # <<>>) =>
         OnlyMember("source", rr.SourceGeoip)

C3_Witness ==
  /\ Succeeded
  /\ rr.PortList # Nil /\ rr.PortRange # Nil
  /\ rr.Networks # <<>> /\ rr.NetworkList # Nil
  /\ rr.Geoip # <<>> /\ rr.Cidr # <<>>
  /\ rr.SourceGeoip # <<>> /\ rr.SourceCidr # <<>>

\* The constructions a rule description asks for that cannot succeed.
DomainFails(r) == r.Domain # <<>> /\ NewDomainMatcher(r.Domain).err # NoErr

AttributesFail(r) == r.Attributes # "" /\ NewAttributeMatcher(r.Attributes).err # NoErr

RawList(cidr) == <<[CountryCode |-> "", Cidr |-> cidr]>>

DestinationFails(r) ==
  IF r.Geoip # <<>>
  THEN NewMultiGeoIPMatcher(r.Geoip, FALSE).err # NoErr
  ELSE r.Cidr # <<>> /\ NewMultiGeoIPMatcher(RawList(r.Cidr), FALSE).err # NoErr

SourceFails(r) ==
  IF r.SourceGeoip # <<>>
  THEN NewMultiGeoIPMatcher(r.SourceGeoip, TRUE).err # NoErr
  ELSE r.SourceCidr # <<>> /\ NewMultiGeoIPMatcher(RawList(r.SourceCidr), TRUE).err # NoErr

SomeMatcherFails(r) ==
  DomainFails(r) \/ AttributesFail(r) \/ DestinationFails(r) \/ SourceFails(r)

\* C4: if the construction of a matcher of the rule fails, the build returns an
\* error and no Condition, whatever else is populated.
C4_MatcherFailureIsFatal ==
  (pc = "built" /\ SomeMatcherFails(rr)) => (retErr # NoErr /\ retCond = Nil)

C4_Witness ==
  /\ Failed
  /\ AttributesFail(rr)
  /\ ~DomainFails(rr) /\ ~DestinationFails(rr) /\ ~SourceFails(rr)
  /\ rr.Domain # <<>> /\ rr.UserEmail # <<>> /\ rr.Application # <<>>

\* A custom-GeoIP field naming a list the data source does not resolve.
CustomGeoipUnresolvable(r) ==
  \E i \in 1..Len(r.CustomGeoip) : r.CustomGeoip[i] \in UnresolvableLists

\* C5: a rule whose custom-GeoIP field names an unresolvable list fails
\* construction.
C5_UnresolvableCustomGeoipFails ==
  (pc = "built" /\ CustomGeoipUnresolvable(rr)) => retErr # NoErr

(***************************************************************************)
(* Properties of the CIDR-list ordering.                                   *)
(***************************************************************************)

\* The order of the CIDR entries as the data model states it.
SameBytesBefore(a, b, k) == \A m \in 1..(k - 1) : a.Ip[m] = b.Ip[m]

Precedes(a, b) ==
  \/ Len(a.Ip) < Len(b.Ip)
  \/ /\ Len(a.Ip) = Len(b.Ip)
     /\ \/ \E k \in 1..Len(a.Ip) : a.Ip[k] < b.Ip[k] /\ SameBytesBefore(a, b, k)
        \/ a.Ip = b.Ip /\ a.Prefix < b.Prefix

\* C8: Less(i, j) is true exactly when entry i precedes entry j: shorter
\* address first, then the bytes lexicographically, then the smaller prefix;
\* an IPv4 entry always precedes an IPv6 entry.
C8_LessIsTheOrder ==
  cpc = "less" =>
    /\ lessOut <=> Precedes(list[lessI], list[lessJ])
    /\ (Len(list[lessI].Ip) = 4 /\ Len(list[lessJ].Ip) = 16) => lessOut
    /\ (Len(list[lessI].Ip) = 16 /\ Len(list[lessJ].Ip) = 4) => ~lessOut

C8_Witness ==
  /\ cpc = "less"
  /\ lessOut
  /\ Len(list[lessI].Ip) = 4 /\ Len(list[lessJ].Ip) = 16
  /\ list[lessI].Ip[1] > list[lessJ].Ip[1]
  /\ list[lessI].Prefix > list[lessJ].Prefix

\* Entry i is before or equal to entry j in the order Less implements.
Leq(i, j) == ~Less(list, j, i)

Indices == 1..Len(list)

IsSorted(l) == \A i \in 1..Len(l), j \in 1..Len(l) : i < j => ~Less(l, j, i)

\* What a call Less(i, j) that returned out shows of the order: with LeqIJ the
\* relation "i before or equal to j" and LeqJI its converse.
OrderLaws(i, j, out) ==
  LET LeqJI == ~out
      LeqIJ == Leq(i, j)
  IN  /\ i = j => LeqJI
      /\ (LeqIJ /\ LeqJI) => list[i] = list[j]
      /\ LeqIJ \/ LeqJI
      /\ out <=> (LeqIJ /\ list[i] # list[j])
      /\ \A k \in Indices : (LeqJI /\ Leq(i, k)) => Leq(j, k)
      /\ \A k \in Indices : (out /\ Less(list, j, k)) => Less(list, i, k)

\* C9: the order Less implements is a total order on the entries (reflexive,
\* antisymmetric, transitive, any two entries comparable, Less its strict
\* part); a sort leaves the list ordered and a second sort leaves it unchanged.
C9_TotalOrderSortIdempotent ==
  /\ cpc = "less" => OrderLaws(lessI, lessJ, lessOut)
  /\ sortCount >= 1 => IsSorted(list)
  /\ sortCount >= 2 => list = prevList

C9_Witness ==
  /\ sortCount = 2
  /\ cpc = "less" /\ lessI # lessJ /\ ~lessOut
  /\ list = prevList
  /\ list # origList
  /\ Len(list) = 3
  /\ list[1] # list[2] /\ list[2] # list[3]
  /\ Len(list[1].Ip) = Len(list[3].Ip)

(***************************************************************************)
(* Properties of Rule.GetTag and Router.PickRoute.                         *)
(***************************************************************************)

\* The call of PickRoute has returned the target of Rule idx.
Matched == rpc = "done" /\ idx <= Len(rules)

\* C6: the target of a Rule with a Balancer is what Balancer.PickOutbound
\* returned, tag or error, whatever the Rule's fixed Tag; the target of a Rule
\* without a Balancer is its fixed Tag and no error.
C6_EffectiveTarget ==
  Matched =>
    IF rules[idx].Balancer # Nil
    THEN poCalled /\ routeTag = poTag /\ routeErr = poErr
    ELSE ~poCalled /\ routeTag = rules[idx].Tag /\ routeErr = NoErr

C6_Witness ==
  /\ Matched
  /\ rules[idx].Balancer # Nil
  /\ rules[idx].Tag = TagDirect
  /\ poCalled /\ poErr # NoErr
  /\ routeErr = poErr /\ routeTag = NoTag

\* The Rules whose Condition the Context of the call satisfies.
Satisfied == { i \in 1..Len(rules) : ConditionApply(rules[i].Condition, ctx) }

FirstSatisfied == CHOOSE i \in Satisfied : \A k \in Satisfied : i <= k

UpTo(n) == [i \in 1..n |-> i]

\* The target of rule r is a possible result of the call.
IsTargetOf(r, tag, err) ==
  IF r.Balancer = Nil
  THEN tag = r.Tag /\ err = NoErr
  ELSE [tag |-> tag, err |-> err] \in BalancerPickOutbound(r.Balancer[1], ohm, windows)

\* C7: PickRoute consults the Rules in order and returns the target of the
\* first Rule whose Condition holds, through its Balancer if it has one; no
\* later Rule is consulted; it fails with "no matching rule" exactly when no
\* Condition holds.
C7_FirstMatchWins ==
  /\ rpc = "done" =>
       /\ routeErr = ErrNoMatch <=> Satisfied = {}
       /\ Satisfied = {} => consulted = UpTo(Len(rules))
       /\ Satisfied # {} =>
            /\ idx = FirstSatisfied
            /\ consulted = UpTo(FirstSatisfied)
            /\ IsTargetOf(rules[FirstSatisfied], routeTag, routeErr)
  /\ rpc = "scan" => consulted = UpTo(idx - 1) /\ Satisfied \cap (1..(idx - 1)) = {}

C7_Witness ==
  /\ rpc = "done"
  /\ Len(rules) = 2
  /\ Satisfied = {1, 2}
  /\ rules[1].Tag # rules[2].Tag
  /\ rules[1].Balancer = Nil /\ rules[2].Balancer = Nil
  /\ routeTag = rules[1].Tag
  /\ consulted = <<1>>

(***************************************************************************)
(* Properties of the Latency strategy.                                     *)
(***************************************************************************)

NoSuccessfulSample(cands) == \A t \in cands : \A i \in 1..Len(windows[t]) : ~windows[t][i].ok

\* C10: with a non-empty candidate set in which no candidate has a successful
\* sample, the Latency strategy returns a tag of the set and no error; it
\* fails only on an empty candidate set.
C10_LatencyNeverFailsOnCandidates ==
  lpc = "picked" =>
    /\ (lsCands # {} /\ NoSuccessfulSample(lsCands)) => (lsErr = NoErr /\ lsTag \in lsCands)
    /\ lsErr # NoErr => lsCands = {}

C10_Witness ==
  /\ lpc = "picked"
  /\ lsCands = OutTags
  /\ NoSuccessfulSample(lsCands)
  /\ \E t \in lsCands : Len(windows[t]) > 0
  /\ lsErr = NoErr /\ lsTag \in lsCands

(***************************************************************************)
(* Properties of BalancingRule.Build.                                      *)
(***************************************************************************)

\* Build has returned.
BuildReturned == lpc # "config"

HasStrategy == balancer # Nil /\ balancer[1].strategy # Nil

\* C11: Build returns a Balancer whose strategy is set, or an error; it never
\* returns without an error a Balancer that has no strategy.
C11_BuiltBalancerHasStrategy ==
  BuildReturned => (buildErr # NoErr \/ HasStrategy)

(***************************************************************************)
(* Properties of the address a GeoIP matcher tests.                        *)
(***************************************************************************)

IsGeoipMatcher(m) == m.kind = "geoip"

IsCustomGeoipMatcher(m) == m.kind = "customgeoip"

ReverseFlags(ms) == [i \in 1..Len(ms) |-> ms[i].reverse]

\* The reverse flags the bundled GeoIP/CIDR fields of a rule ask for: FALSE
\* (destination) for Geoip/Cidr, then TRUE (source) for SourceGeoip/SourceCidr.
BundledFlags(r) ==
  (IF r.Geoip # <<>> \/ r.Cidr # <<>> THEN <<FALSE>> ELSE <<>>)
    \o (IF r.SourceGeoip # <<>> \/ r.SourceCidr # <<>> THEN <<TRUE>> ELSE <<>>)

\* C12: the custom-GeoIP matcher of a built chain always tests the destination
\* address (reverse = FALSE), whatever the rule description holds; the bundled
\* lists get a destination matcher from Geoip/Cidr and a source matcher from
\* SourceGeoip/SourceCidr.
C12_CustomGeoipOnDestination ==
  Succeeded =>
    /\ ReverseFlags(SelectSeq(Chain, IsCustomGeoipMatcher))
         = (IF rr.CustomGeoip # <<>> THEN <<FALSE>> ELSE <<>>)
    /\ \A i \in 1..Len(Chain) :
         IsCustomGeoipMatcher(Chain[i]) => Chain[i].arg = rr.CustomGeoip
    /\ ReverseFlags(SelectSeq(Chain, IsGeoipMatcher)) = BundledFlags(rr)

C12_Witness ==
  /\ Succeeded
  /\ rr.CustomGeoip # <<>>
  /\ rr.Geoip # <<>>
  /\ rr.SourceGeoip = <<>> /\ rr.SourceCidr # <<>>
  /\ \E i \in 1..Len(Chain) : IsCustomGeoipMatcher(Chain[i]) /\ ~Chain[i].reverse
  /\ \E i \in 1..Len(Chain) : IsGeoipMatcher(Chain[i]) /\ Chain[i].reverse

====
